---------------------------- MODULE Spec2Model ----------------------------
(***************************************************************************)
(* Model of src/api.py: the Smart Bot Stats API.  Two database clients are *)
(* created at import, a lifespan context manager pings and later closes    *)
(* them, and four GET handlers answer from three collections that other    *)
(* processes (the bot, the moderation tools) own.                          *)
(*                                                                         *)
(* Values stored in documents and returned in JSON bodies are tagged with  *)
(* their Python type, so that isinstance() and a missing method are        *)
(* decidable.  A datetime is its number of whole seconds since             *)
(* 2024-01-01T00:00:00; strftime and isoformat compute the calendar fields *)
(* from it.                                                                *)
(***************************************************************************)
EXTENDS Integers, Sequences, FiniteSets, TLC

VARIABLES
    lifespan_context,  \* what the framework runs for lifespan events
    server,            \* uvicorn.Server: "created", "startup", "serving", "exited"
    lpc,               \* position inside lifespan(): "start", "ping2", "yielded", "done", "raised"
    MONGO_CLIENT,      \* "open" | "closed"
    mongo_client,      \* "open" | "closed"
    pinged,            \* history: the clients whose ping has succeeded
    startup_failed,    \* the startup failure has been reported
    index_html,        \* the file index.html: "present", "missing", "unreadable"
    user_activity,     \* collection user_activity: a set of documents
    banned_users,      \* collection banned_users: documents in storage order
    auth_admins,       \* collection auth_admins: documents in storage order
    clock,             \* datetime.utcnow()
    req,               \* the handler in flight (its local variables), or Idle
    resp,              \* the response of the latest request, or NoResponse
    fetched,           \* what the latest find().to_list() returned
    observed           \* history: sizes of user_activity seen since get_stats began

vars == <<lifespan_context, server, lpc, MONGO_CLIENT, mongo_client, pinged,
          startup_failed, index_html, user_activity, banned_users, auth_admins,
          clock, req, resp, fetched, observed>>

lifecycle_vars == <<lifespan_context, server, lpc, MONGO_CLIENT, mongo_client,
                    pinged, startup_failed>>

collection_vars == <<user_activity, banned_users, auth_admins, index_html>>

----------------------------------------------------------------------------
(* Bounds *)

MaxRecords == 2     \* documents the bot may create in user_activity
MaxBanned == 2      \* documents in banned_users
MaxAdmins == 2      \* documents in auth_admins
MaxTicks == 1       \* seconds the clock may advance

----------------------------------------------------------------------------
(* Python values *)

None == [t |-> "null"]
PyStr(s) == [t |-> "str", s |-> s]
PyInt(n) == [t |-> "int", n |-> n]
PyDatetime(ts) == [t |-> "datetime", ts |-> ts]
\* an int beyond the model checker's integers, by its decimal digits
PyBigInt(digits) == [t |-> "int", digits |-> digits]

\* dict.get(key, default)
get(d, k, default) == IF k \in DOMAIN d THEN d[k] ELSE default

Digits == <<"0", "1", "2", "3", "4", "5", "6", "7", "8", "9">>

\* str(n) for n >= 0
RECURSIVE str(_)
str(n) == IF n < 10 THEN Digits[n + 1] ELSE str(n \div 10) \o Digits[(n % 10) + 1]

\* %02d, %04d
RECURSIVE Pad(_, _)
Pad(n, width) ==
    IF width = 0 THEN ""
    ELSE Pad(n \div 10, width - 1) \o Digits[(n % 10) + 1]

Day == 24 * 60 * 60

IsLeap(y) == (y % 4 = 0) /\ ((y % 100 # 0) \/ (y % 400 = 0))
DaysInYear(y) == IF IsLeap(y) THEN 366 ELSE 365
DaysInMonth(y, m) ==
    IF m = 2 THEN (IF IsLeap(y) THEN 29 ELSE 28)
    ELSE IF m \in {4, 6, 9, 11} THEN 30 ELSE 31

\* the calendar date d days after the first day of month m of year y
RECURSIVE ymd(_, _, _)
ymd(y, m, d) ==
    IF m = 1 /\ d >= DaysInYear(y) THEN ymd(y + 1, 1, d - DaysInYear(y))
    ELSE IF d >= DaysInMonth(y, m) THEN ymd(y, m + 1, d - DaysInMonth(y, m))
    ELSE [year |-> y, month |-> m, day |-> d + 1]

\* datetime.strftime("%Y-%m-%d")
strftime_date(ts) ==
    LET c == ymd(2024, 1, ts \div Day)
    IN  Pad(c.year, 4) \o "-" \o Pad(c.month, 2) \o "-" \o Pad(c.day, 2)

\* datetime.strftime("%H:%M:%S")
strftime_time(ts) ==
    LET s == ts % Day
    IN  Pad(s \div 3600, 2) \o ":" \o Pad((s % 3600) \div 60, 2) \o ":" \o Pad(s % 60, 2)

\* datetime.isoformat()
isoformat(ts) == strftime_date(ts) \o "T" \o strftime_time(ts)

\* the instant the model's clock starts at: 2025-02-04T01:02:03
Clock0 == 400 * Day + 3723

----------------------------------------------------------------------------
(* Requests and responses *)

Idle == [endpoint |-> "none"]
NoResponse == [endpoint |-> "none", status |-> 0]
NotFetched == [ok |-> FALSE, ran |-> FALSE]
FetchFailed == [ok |-> FALSE, ran |-> TRUE]
Fetched(docs) == [ok |-> TRUE, ran |-> TRUE, docs |-> docs]

\* raise HTTPException(status_code, detail)
HTTPException(endpoint, status_code, detail) ==
    [endpoint |-> endpoint, status |-> status_code, detail |-> detail]

\* a returned body: status 200
Success(endpoint, body) == [endpoint |-> endpoint, status |-> 200, body |-> body]

Serving == server = "serving"

----------------------------------------------------------------------------
(* Lifecycle: main() and lifespan() *)

Clients == {"MONGO_CLIENT", "mongo_client"}

\* main(): uvicorn.Server(config).serve() begins the startup
serve ==
    /\ server = "created"
    /\ server' = "startup"
    /\ UNCHANGED <<lifespan_context, lpc, MONGO_CLIENT, mongo_client, pinged,
                   startup_failed, collection_vars, clock, req, resp, fetched,
                   observed>>

\* the startup of an application whose lifespan() is not the registered
\* context: nothing of lifespan() runs and the server starts serving
default_startup ==
    /\ server = "startup"
    /\ lifespan_context = "default"
    /\ server' = "serving"
    /\ UNCHANGED <<lifespan_context, lpc, MONGO_CLIENT, mongo_client, pinged,
                   startup_failed, collection_vars, clock, req, resp, fetched,
                   observed>>

\* lifespan(): await MONGO_CLIENT.admin.command("ping")
lifespan_ping_MONGO_CLIENT ==
    /\ server = "startup"
    /\ lifespan_context = "lifespan"
    /\ lpc = "start"
    /\ \/ /\ lpc' = "ping2"
          /\ pinged' = pinged \cup {"MONGO_CLIENT"}
          /\ UNCHANGED <<server, startup_failed>>
       \/ \* except Exception: raise HTTPException(500): the startup fails
          /\ lpc' = "raised"
          /\ startup_failed' = TRUE
          /\ server' = "exited"
          /\ UNCHANGED pinged
    /\ UNCHANGED <<lifespan_context, MONGO_CLIENT, mongo_client, collection_vars,
                   clock, req, resp, fetched, observed>>

\* lifespan(): await mongo_client.admin.command("ping"), then yield
lifespan_ping_mongo_client ==
    /\ server = "startup"
    /\ lifespan_context = "lifespan"
    /\ lpc = "ping2"
    /\ \/ /\ lpc' = "yielded"
          /\ pinged' = pinged \cup {"mongo_client"}
          /\ server' = "serving"
          /\ UNCHANGED startup_failed
       \/ /\ lpc' = "raised"
          /\ startup_failed' = TRUE
          /\ server' = "exited"
          /\ UNCHANGED pinged
    /\ UNCHANGED <<lifespan_context, MONGO_CLIENT, mongo_client, collection_vars,
                   clock, req, resp, fetched, observed>>

\* a normal stop: lifespan() resumes after its yield and closes both clients
lifespan_close ==
    /\ Serving
    /\ req = Idle
    /\ lifespan_context = "lifespan"
    /\ lpc = "yielded"
    /\ MONGO_CLIENT' = "closed"
    /\ mongo_client' = "closed"
    /\ lpc' = "done"
    /\ server' = "exited"
    /\ UNCHANGED <<lifespan_context, pinged, startup_failed, collection_vars,
                   clock, req, resp, fetched, observed>>

\* a normal stop of an application whose lifespan() is not the registered context
default_shutdown ==
    /\ Serving
    /\ req = Idle
    /\ lifespan_context = "default"
    /\ server' = "exited"
    /\ UNCHANGED <<lifespan_context, lpc, MONGO_CLIENT, mongo_client, pinged,
                   startup_failed, collection_vars, clock, req, resp, fetched,
                   observed>>

\* a stop by an error or a cancellation delivered while serving: the exception
\* is raised at the yield of lifespan(), which has no try/finally around it
lifespan_cancelled ==
    /\ Serving
    /\ lifespan_context = "lifespan"
    /\ lpc = "yielded"
    /\ lpc' = "raised"
    /\ server' = "exited"
    /\ req' = Idle
    /\ UNCHANGED <<lifespan_context, MONGO_CLIENT, mongo_client, pinged,
                   startup_failed, collection_vars, clock, resp, fetched, observed>>

\* a second passes
Tick ==
    /\ clock < Clock0 + MaxTicks
    /\ clock' = clock + 1
    /\ UNCHANGED <<lifecycle_vars, collection_vars, req, resp, fetched, observed>>

----------------------------------------------------------------------------
(* GET / *)

get_index ==
    /\ Serving
    /\ req = Idle
    /\ resp' = IF index_html = "present"
                 THEN Success("/", PyStr("index.html"))
               ELSE IF index_html = "missing"
                 THEN HTTPException("/", 404, "Index file not found")
               ELSE HTTPException("/", 500, "Failed to serve index page")
    /\ UNCHANGED <<lifecycle_vars, collection_vars, clock, req, fetched, observed>>

----------------------------------------------------------------------------
(* GET /api/stats *)

\* timedelta(days=1), timedelta(weeks=1), timedelta(days=30), timedelta(days=365)
Window == <<Day, 7 * Day, 30 * Day, 365 * Day>>

\* the last filter a copy of the one before it
StatsFilterCopied(k, now) ==
    IF k <= 4 THEN [is_group |-> FALSE, windowed |-> TRUE, gte |-> now - Window[k]]
    ELSE [is_group |-> FALSE, windowed |-> FALSE]

\* the filter of the k-th count_documents call of get_stats
StatsFilter(k, now) ==
    IF k <= 4 THEN [is_group |-> FALSE, windowed |-> TRUE, gte |-> now - Window[k]]
    ELSE IF k = 5 THEN [is_group |-> FALSE, windowed |-> FALSE]
    ELSE [is_group |-> TRUE, windowed |-> FALSE]

\* the comparison reversed: $lte in place of $gte
MatchesLte(doc, f) ==
    /\ doc.is_group = f.is_group
    /\ f.windowed => doc.last_activity <= f.gte

\* the cutoff excluded: $gt in place of $gte
MatchesGt(doc, f) ==
    /\ doc.is_group = f.is_group
    /\ f.windowed => doc.last_activity > f.gte

Matches(doc, f) ==
    /\ doc.is_group = f.is_group
    /\ f.windowed => doc.last_activity >= f.gte

count_documents(coll, f) == Cardinality({d \in coll : Matches(d, f)})

stats_response(counts, now) ==
    Success("/api/stats",
        [api_owner |-> "@ISmartCoder",
         api_dev |-> "@TheSmartDev",
         stats |-> [daily_users |-> counts[1],
                    weekly_users |-> counts[2],
                    monthly_users |-> counts[3],
                    yearly_users |-> counts[4],
                    total_users |-> counts[5],
                    total_groups |-> counts[6]],
         timestamp |-> isoformat(now)])

StatsInFlight == req.endpoint = "/api/stats"

\* the handler is entered: now = datetime.utcnow(), and the first query is sent
get_stats_begin ==
    /\ Serving
    /\ req = Idle
    /\ req' = [endpoint |-> "/api/stats", now |-> clock, counts |-> <<>>]
    /\ resp' = NoResponse
    /\ observed' = {Cardinality(user_activity)}
    /\ UNCHANGED <<lifecycle_vars, collection_vars, clock, fetched>>

\* the database answers the pending count_documents call, or the call raises
get_stats_count ==
    /\ Serving
    /\ StatsInFlight
    /\ \/ LET k == Len(req.counts) + 1
              counts == Append(req.counts,
                               count_documents(user_activity, StatsFilter(k, req.now)))
          IN  IF k < 6
                THEN /\ req' = [req EXCEPT !.counts = counts]
                     /\ UNCHANGED resp
                ELSE /\ req' = Idle
                     /\ resp' = stats_response(counts, req.now)
       \/ /\ req' = Idle
          /\ resp' = HTTPException("/api/stats", 500, "Failed to retrieve stats")
    /\ UNCHANGED <<lifecycle_vars, collection_vars, clock, fetched, observed>>

\* the external bot: instants it may record as last_activity
Instants ==
    {Clock0 - 365 * Day, Clock0 - 30 * Day, Clock0 - 7 * Day, Clock0 - Day, Clock0}

\* the bot meets a user or a group for the first time
BotInsert ==
    /\ \E id \in 1..MaxRecords, g \in BOOLEAN, t \in Instants :
          /\ \A d \in user_activity : d.user_id # id
          /\ user_activity' = user_activity \cup
                 {[user_id |-> id, is_group |-> g, last_activity |-> t]}
    /\ observed' = IF StatsInFlight
                     THEN observed \cup {Cardinality(user_activity')}
                     ELSE observed
    /\ UNCHANGED <<lifecycle_vars, banned_users, auth_admins, index_html, clock,
                   req, resp, fetched>>

\* the bot meets a known user or group again: last_activity moves forward
BotTouch ==
    /\ \E d \in user_activity, t \in Instants :
          /\ t > d.last_activity
          /\ user_activity' = (user_activity \ {d}) \cup
                 {[d EXCEPT !.last_activity = t]}
    /\ UNCHANGED <<lifecycle_vars, banned_users, auth_admins, index_html, clock,
                   req, resp, fetched, observed>>

----------------------------------------------------------------------------
(* GET /api/banlist *)

\* what evaluating an expression gives when it raises
Raised == [raised |-> TRUE]

\* str(value)
py_str(v) ==
    IF v.t = "int" THEN str(v.n)
    ELSE IF v.t = "str" THEN v.s
    ELSE "None"

\* full_name read from the key of the same name
banned_entry_full_name(user) ==
    IF "user_id" \notin DOMAIN user THEN Raised
    ELSE [user_id |-> user["user_id"],
          full_name |-> get(user, "full_name", PyStr(py_str(user["user_id"]))),
          reason |-> get(user, "reason", PyStr("Undefined")),
          ban_date |-> get(user, "ban_date", PyStr("Undefined"))]

\* one element of the list comprehension of get_banlist; user["user_id"] raises
\* KeyError when the key is missing
banned_entry(user) ==
    IF "user_id" \notin DOMAIN user THEN Raised
    ELSE [user_id |-> user["user_id"],
          full_name |-> get(user, "username", PyStr(py_str(user["user_id"]))),
          reason |-> get(user, "reason", PyStr("Undefined")),
          ban_date |-> get(user, "ban_date", PyStr("Undefined"))]

\* get_banlist after its find().to_list() returned banned_list
banlist_response(banned_list, now) ==
    IF banned_list = <<>>
      THEN Success("/api/banlist",
               [api_owner |-> "@ISmartCoder",
                api_dev |-> "@TheSmartDev",
                banned_users |-> <<>>,
                total_banned |-> 0,
                timestamp |-> isoformat(now)])
    ELSE LET entries == [i \in 1..Len(banned_list) |-> banned_entry(banned_list[i])]
         IN  IF \E i \in 1..Len(entries) : entries[i] = Raised
               THEN HTTPException("/api/banlist", 500, "Failed to retrieve banlist")
             ELSE Success("/api/banlist",
                      [api_owner |-> "@ISmartCoder",
                       api_dev |-> "@TheSmartDev",
                       banned_users |-> entries,
                       total_banned |-> Len(banned_list),
                       timestamp |-> isoformat(now)])

get_banlist ==
    /\ Serving
    /\ req = Idle
    /\ \/ /\ fetched' = Fetched(banned_users)
          /\ resp' = banlist_response(banned_users, clock)
       \/ /\ fetched' = FetchFailed
          /\ resp' = HTTPException("/api/banlist", 500, "Failed to retrieve banlist")
    /\ UNCHANGED <<lifecycle_vars, collection_vars, clock, req, observed>>

----------------------------------------------------------------------------
(* GET /api/adminlist *)

\* the synthetic entry that heads every admin list
OwnerEntry ==
    [user_id |-> PyBigInt("7666341631"),
     full_name |-> PyStr("Abir Arafat Chawdhury"),
     title |-> PyStr("Owner"),
     username |-> PyStr("@ISmartCoder"),
     auth_date |-> PyStr("Infinity"),
     auth_time |-> PyStr("Infinity"),
     auth_by |-> PyStr("Abir Arafat Chawdhury")]

\* the fallback to auth_time used whenever auth_date is no datetime
render_auth_date_fallback(admin, now) ==
    LET v == get(admin, "auth_date", get(admin, "auth_time", PyDatetime(now)))
        w == IF v.t = "datetime" THEN v ELSE get(admin, "auth_time", PyDatetime(now))
    IN  IF w.t = "datetime" THEN PyStr(strftime_date(w.ts)) ELSE PyStr("Unknown")

\* the conditional expression that renders "auth_date"
render_auth_date(admin, now) ==
    IF get(admin, "auth_date", None).t = "datetime"
      THEN PyStr(strftime_date(
               get(admin, "auth_date", get(admin, "auth_time", PyDatetime(now))).ts))
    ELSE PyStr("Unknown")

\* admin.get("auth_time", datetime.utcnow()).strftime("%H:%M:%S"): only a
\* datetime has strftime, any other stored value raises AttributeError
render_auth_time(admin, now) ==
    LET v == get(admin, "auth_time", PyDatetime(now))
    IN  IF v.t = "datetime" THEN PyStr(strftime_time(v.ts)) ELSE Raised

\* one element of the list comprehension of get_adminlist
admin_entry(admin, now) ==
    IF ~({"user_id", "title"} \subseteq DOMAIN admin) THEN Raised
    ELSE IF render_auth_time(admin, now) = Raised THEN Raised
    ELSE [user_id |-> admin["user_id"],
          full_name |-> get(admin, "full_name", PyStr("Unknown")),
          title |-> admin["title"],
          username |-> get(admin, "username", PyStr("None")),
          auth_date |-> render_auth_date(admin, now),
          auth_time |-> render_auth_time(admin, now),
          auth_by |-> get(admin, "auth_by", PyStr("Unknown"))]

\* no except clause: the exception of a failing entry reaches the caller
adminlist_response_uncaught(admins, now) ==
    LET entries == [i \in 1..Len(admins) |-> admin_entry(admins[i], now)]
        admin_list == <<OwnerEntry>> \o entries
    IN  IF \E i \in 1..Len(entries) : entries[i] = Raised
          THEN HTTPException("/api/adminlist", 500,
                   "AttributeError: 'NoneType' object has no attribute 'strftime'")
        ELSE Success("/api/adminlist",
                 [api_owner |-> "@ISmartCoder",
                  api_dev |-> "@TheSmartDev",
                  admins |-> admin_list,
                  total_admins |-> Len(admin_list),
                  timestamp |-> isoformat(now)])

\* get_adminlist after its find().to_list() returned admins
adminlist_response(admins, now) ==
    LET entries == [i \in 1..Len(admins) |-> admin_entry(admins[i], now)]
        admin_list == <<OwnerEntry>> \o entries
    IN  IF \E i \in 1..Len(entries) : entries[i] = Raised
          THEN HTTPException("/api/adminlist", 500, "Failed to retrieve adminlist")
        ELSE Success("/api/adminlist",
                 [api_owner |-> "@ISmartCoder",
                  api_dev |-> "@TheSmartDev",
                  admins |-> admin_list,
                  total_admins |-> Len(admin_list),
                  timestamp |-> isoformat(now)])

get_adminlist ==
    /\ Serving
    /\ req = Idle
    /\ \/ /\ fetched' = Fetched(auth_admins)
          /\ resp' = adminlist_response(auth_admins, clock)
       \/ /\ fetched' = FetchFailed
          /\ resp' = HTTPException("/api/adminlist", 500, "Failed to retrieve adminlist")
    /\ UNCHANGED <<lifecycle_vars, collection_vars, clock, req, observed>>

----------------------------------------------------------------------------
(* Documents the external processes may have stored *)

Absent == [t |-> "absent"]

\* the document holding the fields of r that are not Absent
Strip(r) == [k \in {f \in DOMAIN r : r[f] # Absent} |-> r[k]]

SeqsUpTo(S, n) == UNION {[1..k -> S] : k \in 0..n}

\* 2024-02-29T01:02:03 and 2024-12-31T23:59:59
SampleInstants == {59 * Day + 3723, 365 * Day + 86399}

BannedDocs ==
    {Strip([user_id |-> PyInt(u), username |-> n, reason |-> r, ban_date |-> b]) :
        u \in {7, 1042},
        n \in {Absent, None, PyStr("alice")},
        r \in {Absent, PyStr("spam")},
        b \in {Absent, PyStr("2024-05-01")}}

AuthValues == {Absent, None, PyStr("2024-03-01")} \cup {PyDatetime(t) : t \in SampleInstants}

AdminDocs ==
    {Strip([user_id |-> PyInt(9), title |-> PyStr("Admin"),
            full_name |-> PyStr("Bob"), username |-> PyStr("@bob"),
            auth_date |-> d, auth_time |-> t, auth_by |-> PyStr("root")]) :
        d \in AuthValues, t \in AuthValues}
    \cup
    {Strip([user_id |-> PyInt(9), title |-> PyStr("Admin"),
            full_name |-> f, username |-> u,
            auth_date |-> PyDatetime(59 * Day + 3723),
            auth_time |-> PyDatetime(59 * Day + 3723), auth_by |-> b]) :
        f \in {Absent, PyStr("Bob")},
        u \in {Absent, PyStr("@bob")},
        b \in {Absent, PyStr("root")}}

----------------------------------------------------------------------------
(* Specifications *)

\* after the import of api.py: both clients are created and nothing has run
InitProcess ==
    /\ server = "created"
    /\ lpc = "start"
    /\ MONGO_CLIENT = "open"
    /\ mongo_client = "open"
    /\ pinged = {}
    /\ startup_failed = FALSE

\* a process that came up through lifespan() and is serving
InitServing ==
    /\ lifespan_context = "lifespan"
    /\ server = "serving"
    /\ lpc = "yielded"
    /\ MONGO_CLIENT = "open"
    /\ mongo_client = "open"
    /\ pinged = Clients
    /\ startup_failed = FALSE

InitRequests ==
    /\ clock = Clock0
    /\ req = Idle
    /\ resp = NoResponse
    /\ fetched = NotFetched
    /\ observed = {}

\* The whole service.  FastAPI() is constructed without a lifespan argument
\* (line 14) and line 64 sets the attribute app.lifespan instead.  Which of the
\* two the framework runs for lifespan events is decided outside this
\* repository, so both are initial states.
InitServer ==
    /\ lifespan_context \in {"default", "lifespan"}
    /\ InitProcess
    /\ InitRequests
    /\ index_html \in {"present", "missing", "unreadable"}
    /\ user_activity = {[user_id |-> 1, is_group |-> FALSE, last_activity |-> Clock0],
                        [user_id |-> 2, is_group |-> TRUE, last_activity |-> Clock0 - Day]}
    /\ banned_users \in SeqsUpTo({Strip([user_id |-> PyInt(7), username |-> Absent])}, 1)
    /\ auth_admins \in SeqsUpTo(
           {Strip([user_id |-> PyInt(9), title |-> PyStr("Admin"), auth_time |-> t]) :
               t \in {Absent, None}}, 1)

NextServer ==
    \/ serve
    \/ default_startup
    \/ lifespan_ping_MONGO_CLIENT
    \/ lifespan_ping_mongo_client
    \/ lifespan_close
    \/ default_shutdown
    \/ lifespan_cancelled
    \/ Tick
    \/ get_index
    \/ get_stats_begin
    \/ get_stats_count
    \/ get_banlist
    \/ get_adminlist

SpecServer == InitServer /\ [][NextServer]_vars

\* The service of a framework that runs lifespan() for lifespan events
InitLifespan ==
    /\ InitServer
    /\ lifespan_context = "lifespan"

NextLifespan ==
    \/ serve
    \/ lifespan_ping_MONGO_CLIENT
    \/ lifespan_ping_mongo_client
    \/ lifespan_close
    \/ lifespan_cancelled
    \/ Tick
    \/ get_index
    \/ get_stats_begin
    \/ get_stats_count
    \/ get_banlist
    \/ get_adminlist

SpecLifespan == InitLifespan /\ [][NextLifespan]_vars

\* /api/stats beside the bot that writes user_activity
InitStats ==
    /\ InitServing
    /\ InitRequests
    /\ index_html = "present"
    /\ user_activity = {}
    /\ banned_users = <<>>
    /\ auth_admins = <<>>

NextStats ==
    \/ Tick
    \/ BotInsert
    \/ BotTouch
    \/ get_stats_begin
    \/ get_stats_count

SpecStats == InitStats /\ [][NextStats]_vars

\* /api/banlist over every content of banned_users up to MaxBanned documents
InitBanlist ==
    /\ InitServing
    /\ InitRequests
    /\ index_html = "present"
    /\ user_activity = {}
    /\ banned_users \in SeqsUpTo(BannedDocs, MaxBanned)
    /\ auth_admins = <<>>

NextBanlist ==
    \/ Tick
    \/ get_banlist

SpecBanlist == InitBanlist /\ [][NextBanlist]_vars

\* /api/adminlist over every content of auth_admins up to MaxAdmins documents
InitAdminlist ==
    /\ InitServing
    /\ InitRequests
    /\ index_html = "present"
    /\ user_activity = {}
    /\ banned_users = <<>>
    /\ auth_admins \in SeqsUpTo(AdminDocs, MaxAdmins)

NextAdminlist ==
    \/ Tick
    \/ get_adminlist

SpecAdminlist == InitAdminlist /\ [][NextAdminlist]_vars

----------------------------------------------------------------------------
(* Properties: the lifecycle *)

\* C1: no request to any endpoint is served before the ping has succeeded on
\* both clients; after a failed ping the service never serves and the startup
\* failure is reported.
C1_StartupGate ==
    /\ (Serving \/ req # Idle \/ resp # NoResponse) => pinged = Clients
    /\ (server = "exited" /\ pinged # Clients) => (startup_failed /\ resp = NoResponse)

\* C2: on every exit path after startup, normal or by an error or cancellation
\* delivered while serving, both clients end closed: there is no terminated
\* state of a started service in which a client is still open.
C2_ShutdownRelease ==
    (server = "exited" /\ ~startup_failed) =>
        (MONGO_CLIENT = "closed" /\ mongo_client = "closed")

----------------------------------------------------------------------------
(* Properties: /api/stats *)

StatsSuccess == resp.endpoint = "/api/stats" /\ resp.status = 200

\* C3: in every successful /api/stats response the four windowed counts are
\* nested, daily <= weekly <= monthly <= yearly, whatever the bot inserted or
\* moved forward between the handler's queries.
C3_NestedWindows ==
    StatsSuccess =>
        LET s == resp.body.stats
        IN  /\ s.daily_users <= s.weekly_users
            /\ s.weekly_users <= s.monthly_users
            /\ s.monthly_users <= s.yearly_users

\* the bot wrote during the request and the windows differ
C3_Witness ==
    /\ StatsSuccess
    /\ Cardinality(observed) > 1
    /\ resp.body.stats.daily_users < resp.body.stats.weekly_users
    /\ resp.body.stats.monthly_users < resp.body.stats.yearly_users

\* C4: in every successful /api/stats response total_users + total_groups is
\* the number of documents user_activity held at one instant of the request,
\* whatever the bot inserted between the two unconditional counts.
C4_TotalPartition ==
    StatsSuccess =>
        \E n \in observed :
            resp.body.stats.total_users + resp.body.stats.total_groups = n

\* inserts fell before, between and after the two unconditional counts: the sum
\* is the size at neither end of the request
C4_Witness ==
    /\ StatsSuccess
    /\ \E a, b \in observed :
          /\ a < resp.body.stats.total_users + resp.body.stats.total_groups
          /\ resp.body.stats.total_users + resp.body.stats.total_groups < b

\* C9: get_stats captures now once, before its first query; the k-th windowed
\* count is the number of documents with is_group = false and
\* last_activity >= now - window (cutoff included) for the windows of 1, 7, 30
\* and 365 days, the two totals count by is_group alone, and the response
\* carries the six counts and that same now as its timestamp.
C9_WindowedCounts ==
    [][LET users == {d \in user_activity : d.is_group = FALSE}
           Expected(k, now) ==
               IF k = 1 THEN Cardinality({d \in users : d.last_activity >= now - 86400})
               ELSE IF k = 2 THEN Cardinality({d \in users : d.last_activity >= now - 604800})
               ELSE IF k = 3 THEN Cardinality({d \in users : d.last_activity >= now - 2592000})
               ELSE IF k = 4 THEN Cardinality({d \in users : d.last_activity >= now - 31536000})
               ELSE IF k = 5 THEN Cardinality(users)
               ELSE Cardinality(user_activity \ users)
       IN  /\ (req = Idle /\ req'.endpoint = "/api/stats") =>
                 (req'.now = clock /\ req'.counts = <<>>)
           /\ (StatsInFlight /\ req'.endpoint = "/api/stats" /\ req' # req) =>
                 /\ req'.now = req.now
                 /\ req'.counts =
                        Append(req.counts, Expected(Len(req.counts) + 1, req.now))
           /\ (StatsInFlight /\ req' = Idle /\ resp'.status = 200) =>
                 /\ Len(req.counts) = 5
                 /\ resp'.body.stats =
                        [daily_users |-> req.counts[1],
                         weekly_users |-> req.counts[2],
                         monthly_users |-> req.counts[3],
                         yearly_users |-> req.counts[4],
                         total_users |-> req.counts[5],
                         total_groups |-> Expected(6, req.now)]
                 /\ resp'.body.timestamp = isoformat(req.now)
      ]_vars

\* the concrete scenario: one user whose last_activity is the request's now,
\* here 2025-02-04T01:02:03
C9_Witness ==
    /\ StatsSuccess
    /\ user_activity = {[user_id |-> 1, is_group |-> FALSE, last_activity |-> Clock0]}
    /\ observed = {1}
    /\ resp.body.timestamp = "2025-02-04T01:02:03"
    /\ resp.body.stats = [daily_users |-> 1, weekly_users |-> 1, monthly_users |-> 1,
                          yearly_users |-> 1, total_users |-> 1, total_groups |-> 0]

----------------------------------------------------------------------------
(* Properties: /api/banlist *)

BanlistAnswered == resp.endpoint = "/api/banlist" /\ fetched.ok

\* C8: whatever banned_users holds, the /api/banlist response is a success
\* with one entry per fetched document in fetch order and total_banned the
\* length of that list (none gives [] and 0); an entry carries the document's
\* user_id, its username as full_name or else the user_id as a string, its
\* reason or else "Undefined", its ban_date or else "Undefined".
C8_BanlistMapping ==
    BanlistAnswered =>
        /\ resp.status = 200
        /\ Len(resp.body.banned_users) = Len(fetched.docs)
        /\ resp.body.total_banned = Len(resp.body.banned_users)
        /\ \A i \in 1..Len(fetched.docs) :
              LET doc == fetched.docs[i]
                  out == resp.body.banned_users[i]
              IN  /\ out.user_id = doc["user_id"]
                  /\ out.full_name =
                        IF "username" \in DOMAIN doc THEN doc["username"]
                        ELSE IF doc["user_id"] = [t |-> "int", n |-> 7]
                          THEN [t |-> "str", s |-> "7"]
                        ELSE [t |-> "str", s |-> "1042"]
                  /\ out.reason =
                        IF "reason" \in DOMAIN doc THEN doc["reason"]
                        ELSE [t |-> "str", s |-> "Undefined"]
                  /\ out.ban_date =
                        IF "ban_date" \in DOMAIN doc THEN doc["ban_date"]
                        ELSE [t |-> "str", s |-> "Undefined"]

\* two documents, the first with a username, the second with user_id alone
C8_Witness ==
    /\ BanlistAnswered
    /\ resp.status = 200
    /\ Len(fetched.docs) = 2
    /\ "username" \in DOMAIN fetched.docs[1]
    /\ DOMAIN fetched.docs[2] = {"user_id"}
    /\ resp.body.banned_users[2].full_name = PyStr("1042")
    /\ resp.body.banned_users[2].reason = PyStr("Undefined")

----------------------------------------------------------------------------
(* Properties: /api/adminlist *)

AdminlistAnswered == resp.endpoint = "/api/adminlist" /\ fetched.ok

\* C5: whatever auth_admins holds, the /api/adminlist response has a non-empty
\* admins list that begins with the constant owner entry (title "Owner",
\* auth_date and auth_time "Infinity"), followed by one entry per fetched
\* document in storage order, with total_admins = 1 + the number of fetched
\* documents; the owner entry is not a document of the collection.
C5_OwnerEntry ==
    AdminlistAnswered =>
        /\ resp.status = 200
        /\ Len(resp.body.admins) = 1 + Len(fetched.docs)
        /\ resp.body.admins[1].title = PyStr("Owner")
        /\ resp.body.admins[1].auth_date = PyStr("Infinity")
        /\ resp.body.admins[1].auth_time = PyStr("Infinity")
        /\ \A i \in 1..Len(fetched.docs) :
              resp.body.admins[i + 1].user_id = fetched.docs[i]["user_id"]
        /\ resp.body.total_admins = 1 + Len(fetched.docs)
        /\ \A i \in 1..Len(auth_admins) : auth_admins[i]["title"] # PyStr("Owner")

\* C7: the auth_date of a returned entry is the stored auth_date as YYYY-MM-DD
\* when that is a datetime, and "Unknown" when it is absent, null or of another
\* type, whether or not the document has an auth_time.
C7_AuthDateRendering ==
    (AdminlistAnswered /\ resp.status = 200) =>
        \A i \in 1..Len(fetched.docs) :
            LET doc == fetched.docs[i]
                out == resp.body.admins[i + 1].auth_date
            IN  IF "auth_date" \in DOMAIN doc /\ doc["auth_date"].t = "datetime"
                  THEN out = [t |-> "str",
                              s |-> IF doc["auth_date"].ts = 5101323
                                      THEN "2024-02-29" ELSE "2024-12-31"]
                ELSE out = [t |-> "str", s |-> "Unknown"]

\* a document without auth_date but with a datetime auth_time, beside one whose
\* auth_date is a datetime
C7_Witness ==
    /\ AdminlistAnswered
    /\ resp.status = 200
    /\ Len(fetched.docs) = 2
    /\ "auth_date" \notin DOMAIN fetched.docs[1]
    /\ "auth_time" \in DOMAIN fetched.docs[1]
    /\ fetched.docs[1]["auth_time"].t = "datetime"
    /\ resp.body.admins[2].auth_date = PyStr("Unknown")
    /\ resp.body.admins[3].auth_date = PyStr("2024-12-31")

\* C10: every fetched document has an entry in the /api/adminlist response,
\* whose auth_time is the stored auth_time as HH:MM:SS, or the current instant
\* as HH:MM:SS when the document has no auth_time; no stored auth_time value
\* (absent, null, not a datetime) keeps the document or the list from being
\* returned.
C10_AuthTimeRendering ==
    AdminlistAnswered =>
        /\ resp.status = 200
        /\ Len(resp.body.admins) = 1 + Len(fetched.docs)
        /\ \A i \in 1..Len(fetched.docs) :
              LET doc == fetched.docs[i]
                  out == resp.body.admins[i + 1].auth_time
              IN  /\ ("auth_time" \in DOMAIN doc /\ doc["auth_time"].t = "datetime") =>
                        out = PyStr(strftime_time(doc["auth_time"].ts))
                  /\ "auth_time" \notin DOMAIN doc =>
                        out \in {PyStr(strftime_time(t)) : t \in Clock0..clock}

----------------------------------------------------------------------------
(* Properties: errors *)

GenericDetail(endpoint) ==
    IF endpoint = "/api/stats" THEN "Failed to retrieve stats"
    ELSE IF endpoint = "/api/banlist" THEN "Failed to retrieve banlist"
    ELSE IF endpoint = "/api/adminlist" THEN "Failed to retrieve adminlist"
    ELSE "Failed to serve index page"

\* C6: a request of /api/stats, /api/banlist or /api/adminlist in which a query
\* or the reshaping of a document fails ends in a 500 response with the
\* endpoint's fixed message, never in anything else and never in a partial
\* body; a request of / ends in 404 when index.html is missing and in a
\* generic 500 on any other read failure; a failed request changes nothing
\* that a later request reads.
C6_ErrorConversion ==
    [][(resp' # resp /\ resp' # NoResponse) =>
          /\ resp'.status \in {200, 404, 500}
          /\ resp'.status = 500 =>
                (DOMAIN resp' = {"endpoint", "status", "detail"}
                    /\ resp'.detail = GenericDetail(resp'.endpoint))
          /\ resp'.status = 404 =>
                (resp' = [endpoint |-> "/", status |-> 404,
                          detail |-> "Index file not found"]
                    /\ index_html = "missing")
          /\ resp'.endpoint = "/" =>
                resp'.status = (IF index_html = "present" THEN 200
                                ELSE IF index_html = "missing" THEN 404 ELSE 500)
          /\ (resp'.endpoint \in {"/api/banlist", "/api/adminlist"}) =>
                /\ fetched' = FetchFailed => resp'.status = 500
                /\ (fetched'.ok /\ \E i \in 1..Len(fetched'.docs) :
                        "auth_time" \in DOMAIN fetched'.docs[i]
                            /\ fetched'.docs[i]["auth_time"].t # "datetime") =>
                      resp'.status = 500
          /\ (resp'.endpoint = "/api/banlist" /\ resp'.status = 200) =>
                (fetched'.ok /\ Len(resp'.body.banned_users) = Len(fetched'.docs))
          /\ (resp'.endpoint = "/api/adminlist" /\ resp'.status = 200) =>
                (fetched'.ok /\ Len(resp'.body.admins) = 1 + Len(fetched'.docs))
          /\ (resp'.endpoint = "/api/stats" /\ resp'.status = 200) =>
                (Len(req.counts) = 5 /\
                 DOMAIN resp'.body.stats =
                     {"daily_users", "weekly_users", "monthly_users",
                      "yearly_users", "total_users", "total_groups"})
          /\ resp'.status # 200 =>
                (Serving' /\ UNCHANGED <<lifecycle_vars, collection_vars>>)
      ]_vars

\* a reshaping failure answered with the generic 500, and the service still up
C6_Witness ==
    /\ resp = [endpoint |-> "/api/adminlist", status |-> 500,
               detail |-> "Failed to retrieve adminlist"]
    /\ fetched.ok
    /\ Serving

=============================================================================
